---- MODULE Spec2Model ----
(***************************************************************************)
(* Quandify water-consumption integration: the poll cycle of               *)
(* QuandifyDataCoordinator (token cache, lazy refresh, single retry), the   *)
(* Authenticator and the Fetcher, and the sensor that exposes the reading.  *)
(*                                                                          *)
(* Two copies of the integration are modelled, selected by `variant`:       *)
(*   "full"   custom_components/quandify/sensor.py  (token expiry cache)    *)
(*   "legacy" config/custom_components/quandify/sensor.py                   *)
(*                                                                          *)
(* A poll cycle is a coroutine; it is split at its await points (the login  *)
(* and the fetch HTTP requests), so one action runs the code from one await *)
(* to the next.  Time is counted in hours, volumes in thousandths of a      *)
(* liter.                                                                   *)
(*                                                                          *)
(* Also modelled: the config flow (is_valid_guid, validate_input,           *)
(* async_step_user) of custom_components/quandify/config_flow.py, and the  *)
(* standalone script test.py (authenticate, get_aggregated_data, main).    *)
(***************************************************************************)
EXTENDS Integers, FiniteSets, Sequences, TLC

VARIABLES
    variant,              \* which copy of sensor.py runs
    now,                  \* datetime.now(), in hours
    token,                \* self._token
    token_expires,        \* self._token_expires
    data,                 \* coordinator.data
    last_update_success,  \* coordinator.last_update_success
    pc,                   \* per poll cycle: the await it is suspended at
    hdr,                  \* per poll cycle: token in the Authorization header in flight
    hist,                 \* per poll cycle: what the cycle has done (observation only)
    call,                 \* the last direct call of a function on its own
    flow,                 \* the config flow: the form, its errors, the entry
    meter,                \* vendor side: the volume metered since local midnight
    script                \* the standalone script (test.py): one run of main

vars == <<variant, now, token, token_expires, data, last_update_success, pc, hdr, hist, call,
          flow, meter, script>>

(***************************************************************************)
(* Bounds and values                                                        *)
(***************************************************************************)
MaxClock == 25

TokenLifetime == 23

\* The consumption window runs from local midnight to now: hours of one day.
HoursPerDay == 24

Variants == {"full", "legacy"}

Cycles == {"p1", "p2"}

\* Polls run one at a time (spec section 5): one coroutine is live.
Serial == {"p1"}

\* Python None, for a token / for a float / for a datetime.
NoToken == "None"

NoData == 0 - 1

NoExpiry == 0 - 1

\* dict.get / "in" on a key the JSON object does not hold.
KeyAbsent == "<absent>"

Tokens == {"T1", "T2"}

\* totalVolume values in thousandths of a liter: 0.0, 12.5, 12.346, 42.0
Volumes == {0, 12500, 12346, 42000}

\* Every exception modelled here derives from Exception.
PyExceptions == {"RequestException", "ValueError", "TypeError", "AttributeError",
                 "OverflowError", "UpdateFailed"}

\* Python truthiness of a token value (None and "" are falsy).
Truthy(t) == t # NoToken /\ t # ""

(***************************************************************************)
(* What the two HTTP endpoints may answer                                   *)
(***************************************************************************)
NetworkErrors == {"timeout", "connection_error"}

StatusCodes == {200, 401, 500}

\* id_token of a 200 login body that is a JSON object: missing, null, "", or a token
IdTokenValues == {KeyAbsent, NoToken, ""} \cup Tokens

LoginResponses ==
    {[net |-> n, status |-> 0, shape |-> "none", id_token |-> KeyAbsent] : n \in NetworkErrors}
    \cup {[net |-> "ok", status |-> s, shape |-> "text", id_token |-> KeyAbsent] :
             s \in StatusCodes \ {200}}
    \cup {[net |-> "ok", status |-> s, shape |-> "object", id_token |-> "T1"] :
             s \in StatusCodes \ {200}}
    \cup {[net |-> "ok", status |-> 200, shape |-> sh, id_token |-> KeyAbsent] :
             sh \in {"invalid", "array"}}
    \cup {[net |-> "ok", status |-> 200, shape |-> "object", id_token |-> t] :
             t \in IdTokenValues}

\* JSON values found at aggregate.total.totalVolume
VolumeValues ==
    {[t |-> "num", v |-> n] : n \in Volumes}
    \cup {[t |-> "numtext", v |-> n] : n \in {12500}}
    \cup {[t |-> k, v |-> 0] : k \in {"null", "text", "object", "hugeint"}}

NoVolume == [t |-> "none", v |-> 0]

\* Shapes of a consumption body: not JSON, a JSON scalar (null or a number), a JSON
\* array, or an object cut short at some key of aggregate / total / totalVolume.
BrokenShapes == {"invalid", "scalar", "array", "no_aggregate", "aggregate_null",
                 "no_total", "total_null", "no_totalVolume"}

FetchResponses ==
    {[net |-> n, status |-> 0, shape |-> "none", vol |-> NoVolume] : n \in NetworkErrors}
    \cup {[net |-> "ok", status |-> s, shape |-> "text", vol |-> NoVolume] :
             s \in StatusCodes \ {200}}
    \cup {[net |-> "ok", status |-> s, shape |-> "full", vol |-> [t |-> "num", v |-> 42000]] :
             s \in StatusCodes \ {200}}
    \cup {[net |-> "ok", status |-> 200, shape |-> sh, vol |-> NoVolume] : sh \in BrokenShapes}
    \cup {[net |-> "ok", status |-> 200, shape |-> "full", vol |-> x] : x \in VolumeValues}

(***************************************************************************)
(* Results of a call: a returned value or a raised exception                *)
(***************************************************************************)
Return(x) == [exc |-> "none", ret |-> x]

Raise(e, none) == [exc |-> e, ret |-> none]

(***************************************************************************)
(* Authenticator: QuandifyDataCoordinator._authenticate                     *)
(***************************************************************************)
\* data.get("id_token"): None when the key is missing
dict_get_id_token(resp) == IF resp.id_token = KeyAbsent THEN NoToken ELSE resp.id_token

\* Mutant: the status code is not looked at.
authenticate_try_any_status(v, resp) ==
    IF resp.net # "ok" THEN [exc |-> "RequestException", ret |-> NoToken, store |-> FALSE]
    ELSE IF resp.shape \in {"invalid", "text"}
        THEN [exc |-> "ValueError", ret |-> NoToken, store |-> FALSE]
    ELSE IF resp.shape # "object"
        THEN [exc |-> "AttributeError", ret |-> NoToken, store |-> FALSE]
    ELSE IF v = "legacy"
        THEN [exc |-> "none", ret |-> dict_get_id_token(resp), store |-> FALSE]
    ELSE IF Truthy(dict_get_id_token(resp))
        THEN [exc |-> "none", ret |-> dict_get_id_token(resp), store |-> TRUE]
    ELSE [exc |-> "none", ret |-> NoToken, store |-> FALSE]

\* The body of the try block.  store: self._token and self._token_expires are set.
authenticate_try(v, resp) ==
    IF resp.net # "ok" THEN [exc |-> "RequestException", ret |-> NoToken, store |-> FALSE]
    ELSE IF resp.status = 200 THEN
        IF resp.shape = "invalid" THEN [exc |-> "ValueError", ret |-> NoToken, store |-> FALSE]
        ELSE IF resp.shape # "object"
            THEN [exc |-> "AttributeError", ret |-> NoToken, store |-> FALSE]
        ELSE IF v = "legacy"
            THEN [exc |-> "none", ret |-> dict_get_id_token(resp), store |-> FALSE]
        ELSE IF Truthy(dict_get_id_token(resp))
            THEN [exc |-> "none", ret |-> dict_get_id_token(resp), store |-> TRUE]
        ELSE [exc |-> "none", ret |-> NoToken, store |-> FALSE]
    ELSE [exc |-> "none", ret |-> NoToken, store |-> FALSE]

\* except Exception as e: log, return None
authenticate_caught(e) == e \in PyExceptions

authenticate(v, resp) ==
    LET r == authenticate_try(v, resp)
    IN  IF authenticate_caught(r.exc)
        THEN [exc |-> "none", ret |-> NoToken, store |-> FALSE]
        ELSE r

\* self._token_expires = datetime.now() + timedelta(hours=23)
new_token_expires(clock) == clock + TokenLifetime

(***************************************************************************)
(* Fetcher: QuandifyDataCoordinator._get_consumption_data                   *)
(***************************************************************************)
\* Python float(x) of a JSON value
py_float(x) ==
    CASE x.t = "num" -> Return(x.v)
      [] x.t = "numtext" -> Return(x.v)
      [] x.t = "text" -> Raise("ValueError", NoData)
      [] x.t = "hugeint" -> Raise("OverflowError", NoData)
      [] OTHER -> Raise("TypeError", NoData)

\* full: float(volume) if volume is not None else 0.0;  legacy: float(volume)
volume_to_float(v, x) ==
    IF v = "full" /\ x.t = "null" THEN Return(0) ELSE py_float(x)

\* "aggregate" in data and "total" in data["aggregate"] and "totalVolume" in ...
path_lookup(resp) ==
    CASE resp.shape \in {"scalar", "aggregate_null", "total_null"} -> Raise("TypeError", FALSE)
      [] resp.shape = "full" -> Return(TRUE)
      [] OTHER -> Return(FALSE)

\* Mutant: the status code is not looked at.
get_consumption_data_try_any_status(v, resp) ==
    IF resp.net # "ok" THEN Raise("RequestException", NoData)
    ELSE IF resp.shape = "invalid" THEN Raise("ValueError", NoData)
    ELSE IF path_lookup(resp).exc # "none" THEN Raise(path_lookup(resp).exc, NoData)
    ELSE IF path_lookup(resp).ret THEN volume_to_float(v, resp.vol)
    ELSE Return(NoData)

get_consumption_data_try(v, resp) ==
    IF resp.net # "ok" THEN Raise("RequestException", NoData)
    ELSE IF resp.status = 200 THEN
        IF resp.shape = "invalid" THEN Raise("ValueError", NoData)
        ELSE IF path_lookup(resp).exc # "none" THEN Raise(path_lookup(resp).exc, NoData)
        ELSE IF path_lookup(resp).ret THEN volume_to_float(v, resp.vol)
        ELSE Return(NoData)
    ELSE Return(NoData)

\* Mutant: only requests' own exceptions are caught.
fetch_caught_requests_only(e) == e = "RequestException"

\* except Exception as e: log, return None
fetch_caught(e) == e \in PyExceptions

get_consumption_data(v, resp) ==
    LET r == get_consumption_data_try(v, resp)
    IN  IF fetch_caught(r.exc) THEN Return(NoData) ELSE r

(***************************************************************************)
(* Sensor: QuandifyWaterSensor                                              *)
(***************************************************************************)
\* round(x, 2) of a value in thousandths.  A tie (last digit 5) depends on the
\* binary expansion of the float; it is rounded half-to-even here.
round2(x) ==
    LET r == x % 10
    IN  IF r < 5 THEN x - r
        ELSE IF r > 5 THEN x - r + 10
        ELSE IF ((x - r) \div 10) % 2 = 0 THEN x - r ELSE x - r + 10

\* Mutant: the stored value is exposed as it is.
native_value_of_raw(v, d) == d

native_value_of(v, d) ==
    IF v = "full" THEN (IF d # NoData THEN round2(d) ELSE NoData) ELSE d

native_value == native_value_of(variant, data)

available == last_update_success

(***************************************************************************)
(* Poll cycle: QuandifyDataCoordinator._async_update_data                   *)
(***************************************************************************)
\* What a cycle has done so far; reset when the cycle starts.
\*   logins, fetches   requests sent
\*   first             outcome of the first fetch: "none", "ok", "fail"
\*   reauths, retries  logins / fetches sent after the first fetch failed
\*   start_cached      the cached token was used at the start (no login)
\*   last_status       HTTP status of the last answered fetch (0: none, or no answer)
\*   last_hdr          token that fetch carried
\*   fetched           what the last fetch returned
\*   last_vol          the number at aggregate.total.totalVolume of the last answer,
\*                     when it was a well-formed 200
\*   reauth_ok         the re-authentication was answered 200 with an id_token
\*   fresh             a login of this cycle returned a token
\*   issued            the id_token of the last login of this cycle answered 200 with one
\*   env_ok            so far every login was answered 200 with a token and every
\*                     fetch carrying a fresh token with a well-formed 200
\*   prev_ok           last_update_success when the cycle started
\*   outcome           "none", "returned", or the exception raised to the caller
\*   result            the value returned
HistInit ==
    [logins |-> 0, fetches |-> 0, first |-> "none", reauths |-> 0, retries |-> 0,
     start_cached |-> FALSE, last_status |-> 0, last_hdr |-> NoToken, fetched |-> NoData,
     last_vol |-> NoData, reauth_ok |-> FALSE, fresh |-> FALSE, env_ok |-> TRUE, prev_ok |-> TRUE,
     outcome |-> "none", result |-> NoData, issued |-> NoToken]

\* the login endpoint answers 200 with an id_token
login_ok(resp) == resp.net = "ok" /\ resp.status = 200 /\ resp.shape = "object"
                  /\ resp.id_token \in Tokens

\* the consumption endpoint answers 200 with a number at aggregate.total.totalVolume
fetch_ok(resp) == resp.net = "ok" /\ resp.status = 200 /\ resp.shape = "full"
                  /\ resp.vol.t = "num"

\* Mutant: a token is still used at the instant it expires.
token_valid_inclusive(tok, exp, clock) == Truthy(tok) /\ exp # NoExpiry /\ clock <= exp

\* _ensure_token: self._token and self._token_expires and datetime.now() < self._token_expires
token_valid(tok, exp, clock) == Truthy(tok) /\ exp # NoExpiry /\ clock < exp

\* Mutant: a cached token is used whatever its expiry.
cached_token_ok_any_age(v, tok, exp, clock) == Truthy(tok)

\* Start of a cycle: is the cached token used without a login?
\*   full: _ensure_token;  legacy: if not self._token
cached_token_ok(v, tok, exp, clock) ==
    IF v = "full" THEN token_valid(tok, exp, clock) ELSE Truthy(tok)

\* Mutant: the rejected token is kept.
discard_token_kept(v, tok) == tok

\* After a failed first fetch.  full: self._token = None;  legacy: left as it is
discard_token(v, tok) == IF v = "full" THEN NoToken ELSE tok

\* After the discard.  full: _ensure_token again;  legacy: always _authenticate
reauth_skipped(v, tok, exp, clock) == v = "full" /\ token_valid(tok, exp, clock)

\* Mutant: `if not data`, which a reading of 0.0 also satisfies.
data_is_none_falsy(x) == x = NoData \/ x = 0

\* if data is None
data_is_none(x) == x = NoData

\* Mutant: the token check before a fetch is dropped.
have_token_unchecked(v, ret, cached) == TRUE

\* if not token / if token  (full: the local from _ensure_token; legacy: self._token)
have_token(v, ret, cached) == IF v = "full" THEN Truthy(ret) ELSE Truthy(cached)

\* except Exception as err: raise UpdateFailed(...)
update_except(e) == IF e \in PyExceptions THEN "UpdateFailed" ELSE e

\* The cycle ends: res is what the try block returned or raised.
update_result(res) ==
    IF res.exc = "none" THEN res ELSE Raise(update_except(res.exc), NoData)

\* DataUpdateCoordinator (host): the refresh stores a returned value and records
\* whether the update succeeded; a failed update leaves the stored value alone.
refresh_data(res, old) == IF res.exc = "none" THEN res.ret ELSE old

refresh_success(res) == res.exc = "none"

(***************************************************************************)
(* Config flow: is_valid_guid, validate_input, ConfigFlow.async_step_user   *)
(***************************************************************************)
\* A string is a sequence of characters; LF stands for the newline character.
LF == "LF"

\* [0-9a-f] under re.IGNORECASE
HexDigits == {"0", "1", "2", "3", "4", "5", "6", "7", "8", "9",
              "a", "b", "c", "d", "e", "f", "A", "B", "C", "D", "E", "F"}

\* ^[0-9a-f]{8}-[0-9a-f]{4}-[0-9a-f]{4}-[0-9a-f]{4}-[0-9a-f]{12}$ : the items
\* between ^ and $, each a character class repeated n times
guid_pattern ==
    <<[cls |-> "hex", n |-> 8], [cls |-> "dash", n |-> 1], [cls |-> "hex", n |-> 4],
      [cls |-> "dash", n |-> 1], [cls |-> "hex", n |-> 4], [cls |-> "dash", n |-> 1],
      [cls |-> "hex", n |-> 4], [cls |-> "dash", n |-> 1], [cls |-> "hex", n |-> 12]>>

class_match(cls, ch) == IF cls = "hex" THEN ch \in HexDigits ELSE ch = "-"

\* The position after items k.. of the pattern matched at pos, 0 when they do not.
RECURSIVE match_items(_, _, _)
match_items(s, pos, k) ==
    IF k > Len(guid_pattern) THEN pos
    ELSE LET item == guid_pattern[k]
             last == pos + item.n - 1
         IN  IF last <= Len(s) /\ \A i \in pos..last : class_match(item.cls, s[i])
             THEN match_items(s, last + 1, k + 1)
             ELSE 0

\* Mutant: $ matches at the very end of the string only (as \Z does).
match_end_strict(s, pos) == pos = Len(s) + 1

\* $ without re.MULTILINE: at the end of the string, or before a newline that
\* ends the string
match_end(s, pos) == pos = Len(s) + 1 \/ (pos = Len(s) /\ s[pos] = LF)

\* bool(guid_pattern.match(guid))
is_valid_guid(guid) ==
    LET pos == match_items(guid, 1, 1)
    IN  pos # 0 /\ match_end(guid, pos)

\* "12345678-1234-5678-9012-123456789012"
ExampleGuid ==
    <<"1", "2", "3", "4", "5", "6", "7", "8", "-", "1", "2", "3", "4", "-",
      "5", "6", "7", "8", "-", "9", "0", "1", "2", "-",
      "1", "2", "3", "4", "5", "6", "7", "8", "9", "0", "1", "2">>

\* "not-a-guid"
NotAGuid == <<"n", "o", "t", "-", "a", "-", "g", "u", "i", "d">>

\* Characters tried at every position of the example: hex digits of either case,
\* a letter that is no hex digit, the hyphen, the newline.
ProbeChars == {"0", "a", "F", "g", "-", LF}

\* The example with one character replaced, removed or inserted, at any position.
GuidInputs ==
    {ExampleGuid, NotAGuid, <<>>}
    \cup {[ExampleGuid EXCEPT ![i] = ch] : i \in 1..Len(ExampleGuid), ch \in ProbeChars}
    \cup {SubSeq(ExampleGuid, 1, i - 1) \o SubSeq(ExampleGuid, i + 1, Len(ExampleGuid)) :
             i \in 1..Len(ExampleGuid)}
    \cup {SubSeq(ExampleGuid, 1, i) \o <<ch>> \o SubSeq(ExampleGuid, i + 1, Len(ExampleGuid)) :
             i \in 0..Len(ExampleGuid), ch \in ProbeChars}

\* Identifiers typed into the form.
FormGuids == {ExampleGuid, NotAGuid, ExampleGuid \o <<LF>>}

MaxSubmits == 2

\* errors = {}
NoErrors == [base |-> "none", account_id |-> "none", organization_id |-> "none"]

NoResponse == [net |-> "none"]

\* The form is shown, nothing submitted yet.
\*   stage     "form" (shown), "login" (validate_input awaits the login), "done"
\*   errors    the errors the form shows
\*   submits   forms submitted;  logins: login requests sent
\*   resp      the answer to the last login;  entry: a config entry was created
FlowInit ==
    [stage |-> "form", errors |-> NoErrors, account_id |-> <<>>, organization_id |-> <<>>,
     submits |-> 0, logins |-> 0, resp |-> NoResponse, entry |-> FALSE, title |-> <<>>]

\* CannotConnect, InvalidAuth, InvalidGuid (HomeAssistantError) and the flow's
\* AbortFlow all derive from Exception.
FlowExceptions == {"CannotConnect", "InvalidAuth", "InvalidGuid", "AbortFlow"}

\* validate_input before the try block: the exception raised and its field
validate_guids(account_id, organization_id) ==
    IF ~is_valid_guid(account_id) THEN [exc |-> "InvalidGuid", field |-> "account_id"]
    ELSE IF ~is_valid_guid(organization_id)
        THEN [exc |-> "InvalidGuid", field |-> "organization_id"]
    ELSE [exc |-> "none", field |-> "none"]

\* The try block of validate_input: what it raises ("none": it falls through).
validate_input_try(resp) ==
    IF resp.net # "ok" THEN "RequestException"
    ELSE IF resp.status # 200
        THEN (IF resp.status = 401 THEN "InvalidAuth" ELSE "CannotConnect")
    ELSE IF resp.shape \in {"invalid", "text"} THEN "ValueError"
    ELSE IF resp.shape # "object" THEN "AttributeError"
    ELSE IF ~Truthy(dict_get_id_token(resp)) THEN "InvalidAuth"
    ELSE "none"

\* Mutant: the handlers let the flow's own exceptions through.
validate_input_caught_reraise(e) ==
    IF e \in {"InvalidAuth", "CannotConnect"} THEN e
    ELSE IF e \in PyExceptions THEN "CannotConnect"
    ELSE e

\* except requests.exceptions.RequestException: raise CannotConnect()
\* except Exception: raise CannotConnect()
validate_input_caught(e) ==
    IF e = "RequestException" THEN "CannotConnect"
    ELSE IF e \in PyExceptions \cup FlowExceptions THEN "CannotConnect"
    ELSE e

\* What validate_input raises once the login is answered.
validate_input(resp) == validate_input_caught(validate_input_try(resp))

\* The except clauses of async_step_user.
step_user_errors(exc, field) ==
    IF exc = "CannotConnect" THEN [NoErrors EXCEPT !.base = "cannot_connect"]
    ELSE IF exc = "InvalidAuth" THEN [NoErrors EXCEPT !.base = "invalid_auth"]
    ELSE IF exc = "InvalidGuid" THEN [NoErrors EXCEPT ![field] = "invalid_guid"]
    ELSE [NoErrors EXCEPT !.base = "unknown"]

\* f"Quandify ({data[CONF_ACCOUNT_ID][:8]}...)"
entry_title(account_id) == SubSeq(account_id, 1, 8)

(***************************************************************************)
(* The standalone script: test.py                                           *)
(***************************************************************************)
\* What the script may be answered: the answers above, and answers with 201, a
\* success status that is not 200.
ScriptLoginResponses ==
    LoginResponses
    \cup {[net |-> "ok", status |-> 201, shape |-> "text", id_token |-> KeyAbsent]}
    \cup {[net |-> "ok", status |-> 201, shape |-> "object", id_token |-> t] :
             t \in {KeyAbsent, "T1"}}

ScriptFetchResponses ==
    FetchResponses
    \cup {[net |-> "ok", status |-> 201, shape |-> "text", vol |-> NoVolume]}
    \cup {[net |-> "ok", status |-> 201, shape |-> "full", vol |-> [t |-> "num", v |-> 42000]]}

\* Mutant: the status of the response is never looked at.
raise_for_status_never(status) == FALSE

\* response.raise_for_status(): HTTPError for a 4xx or 5xx status
raise_for_status(status) == status >= 400 /\ status < 600

\* authenticate: the id_token, or None; every exception is caught
script_authenticate(resp) ==
    IF resp.net # "ok" THEN NoToken
    ELSE IF raise_for_status(resp.status) THEN NoToken
    ELSE IF resp.shape # "object" THEN NoToken
    ELSE IF Truthy(dict_get_id_token(resp)) THEN dict_get_id_token(resp)
    ELSE NoToken

\* get_aggregated_data: the JSON value at aggregate.total.totalVolume as it is (null
\* is None), or None; every exception is caught
script_get_aggregated_data(resp) ==
    IF resp.net # "ok" THEN NoVolume
    ELSE IF raise_for_status(resp.status) THEN NoVolume
    ELSE IF resp.shape # "full" THEN NoVolume
    ELSE IF resp.vol.t = "null" THEN NoVolume
    ELSE resp.vol

\* main has not run.
\*   at        "start", "auth" / "fetch" (the request is in flight), "done"
\*   logins, fetches   requests sent
\*   id_token  what authenticate returned;  hdr: the token the fetch carries
\*   total_volume      what get_aggregated_data returned
ScriptInit ==
    [at |-> "start", credentials_set |-> FALSE, logins |-> 0, fetches |-> 0,
     login_resp |-> NoResponse, id_token |-> NoToken, hdr |-> NoToken,
     fetch_resp |-> NoResponse, total_volume |-> NoVolume]

Init ==
    /\ variant \in Variants
    /\ now = 0
    /\ token = NoToken
    /\ token_expires = NoExpiry
    /\ data = NoData
    /\ last_update_success = TRUE
    /\ pc = [c \in Cycles |-> "idle"]
    /\ hdr = [c \in Cycles |-> NoToken]
    /\ hist = [c \in Cycles |-> HistInit]
    /\ call = [fn |-> "none"]
    /\ flow = FlowInit
    /\ meter = 0
    /\ script = ScriptInit

\* Mutant: the token a login returned is not cached.
token_after_unstored(v, r, tok) == tok

\* self._token / self._token_expires after _authenticate returned r.
\*   full: set inside _authenticate;  legacy: self._token = await self._authenticate()
token_after(v, r, tok) ==
    IF v = "full" THEN (IF r.store THEN r.ret ELSE tok)
    ELSE (IF r.exc = "none" THEN r.ret ELSE tok)

\* Mutant: a login that replaces the token leaves the expiry as it was.
expires_after_stale(v, r, exp, clock) == exp

expires_after(v, r, exp, clock) ==
    IF v = "full" /\ r.store THEN new_token_expires(clock) ELSE exp

\* The cycle ends with res (returned or raised inside the try block); h is its history.
Finish(c, res, h) ==
    LET out == update_result(res)
    IN  /\ pc' = [pc EXCEPT ![c] = "idle"]
        /\ hdr' = [hdr EXCEPT ![c] = NoToken]
        /\ data' = refresh_data(out, data)
        /\ last_update_success' = refresh_success(out)
        /\ hist' = [hist EXCEPT ![c] =
                      [h EXCEPT !.outcome = IF out.exc = "none" THEN "returned" ELSE out.exc,
                                !.result = IF out.exc = "none" THEN out.ret ELSE NoData]]

\* Mutant: the Authorization header is built before the login that precedes the
\* request is answered, from the token cached then.
SendFetch_early_header(c, next, tok, h) ==
    /\ pc' = [pc EXCEPT ![c] = next]
    /\ hdr' = [hdr EXCEPT ![c] = IF pc[c] = "idle" THEN tok ELSE token]
    /\ hist' = [hist EXCEPT ![c] = [h EXCEPT !.fetches = @ + 1]]
    /\ UNCHANGED <<data, last_update_success>>

\* The Authorization header is built from self._token when the request is made.
SendFetch(c, next, tok, h) ==
    /\ pc' = [pc EXCEPT ![c] = next]
    /\ hdr' = [hdr EXCEPT ![c] = tok]
    /\ hist' = [hist EXCEPT ![c] = [h EXCEPT !.fetches = @ + 1]]
    /\ UNCHANGED <<data, last_update_success>>

SendLogin(c, next, h) ==
    /\ pc' = [pc EXCEPT ![c] = next]
    /\ hdr' = [hdr EXCEPT ![c] = NoToken]
    /\ hist' = [hist EXCEPT ![c] = [h EXCEPT !.logins = @ + 1]]
    /\ UNCHANGED <<data, last_update_success>>

\* The timer fires: the cycle runs up to its first await.
Start(c) ==
    /\ pc[c] = "idle"
    /\ LET h == [HistInit EXCEPT !.prev_ok = last_update_success]
       IN  IF cached_token_ok(variant, token, token_expires, now)
           THEN SendFetch(c, "fetch1", token, [h EXCEPT !.start_cached = TRUE])
           ELSE SendLogin(c, "auth1", h)
    /\ UNCHANGED <<variant, now, token, token_expires, call, flow, meter, script>>

\* The first login is answered.
LoginResponse1(c, resp) ==
    /\ pc[c] = "auth1"
    /\ LET r == authenticate(variant, resp)
           tok == token_after(variant, r, token)
           h == [hist[c] EXCEPT !.fresh = @ \/ (r.exc = "none" /\ Truthy(r.ret)),
                                !.env_ok = @ /\ login_ok(resp),
                                !.issued = IF login_ok(resp) THEN resp.id_token ELSE @]
       IN  /\ token' = tok
           /\ token_expires' = expires_after(variant, r, token_expires, now)
           /\ IF r.exc # "none" THEN Finish(c, Raise(r.exc, NoData), h)
              ELSE IF ~have_token(variant, r.ret, tok)
                  THEN Finish(c, Raise("UpdateFailed", NoData), h)
              ELSE SendFetch(c, "fetch1", tok, h)
    /\ UNCHANGED <<variant, now, call, flow, meter, script>>

\* What a fetch answer adds to the history.
fetch_hist(h, carried, resp, d) ==
    [h EXCEPT !.last_status = resp.status,
              !.last_hdr = carried,
              !.fetched = IF d.exc = "none" THEN d.ret ELSE NoData,
              !.last_vol = IF fetch_ok(resp) THEN resp.vol.v ELSE NoData,
              !.env_ok = @ /\ (h.fresh => fetch_ok(resp))]

\* The first fetch is answered.
FetchResponse1(c, resp) ==
    /\ pc[c] = "fetch1"
    /\ LET d == get_consumption_data(variant, resp)
           h == fetch_hist(hist[c], hdr[c], resp, d)
           tok == discard_token(variant, token)
       IN  IF d.exc # "none"
               THEN Finish(c, Raise(d.exc, NoData), h) /\ UNCHANGED token
           ELSE IF ~data_is_none(d.ret)
               THEN Finish(c, Return(d.ret), [h EXCEPT !.first = "ok"]) /\ UNCHANGED token
           ELSE /\ token' = tok
                /\ IF reauth_skipped(variant, tok, token_expires, now)
                   THEN SendFetch(c, "fetch2", tok,
                                  [h EXCEPT !.first = "fail", !.retries = @ + 1])
                   ELSE SendLogin(c, "auth2",
                                  [h EXCEPT !.first = "fail", !.reauths = @ + 1])
    /\ UNCHANGED <<variant, now, token_expires, call, flow, meter, script>>

\* The re-authentication is answered.
LoginResponse2(c, resp) ==
    /\ pc[c] = "auth2"
    /\ LET r == authenticate(variant, resp)
           tok == token_after(variant, r, token)
           h == [hist[c] EXCEPT !.fresh = @ \/ (r.exc = "none" /\ Truthy(r.ret)),
                                !.reauth_ok = login_ok(resp),
                                !.env_ok = @ /\ login_ok(resp),
                                !.issued = IF login_ok(resp) THEN resp.id_token ELSE @]
       IN  /\ token' = tok
           /\ token_expires' = expires_after(variant, r, token_expires, now)
           /\ IF r.exc # "none" THEN Finish(c, Raise(r.exc, NoData), h)
              ELSE IF ~have_token(variant, r.ret, tok)
                  THEN Finish(c, Raise("UpdateFailed", NoData), h)
              ELSE SendFetch(c, "fetch2", tok, [h EXCEPT !.retries = @ + 1])
    /\ UNCHANGED <<variant, now, call, flow, meter, script>>

\* Mutant: a failed retry re-authenticates and retries again (a retry ladder).
FetchResponse2_retry_ladder(c, resp) ==
    /\ pc[c] = "fetch2"
    /\ LET d == get_consumption_data(variant, resp)
           h == fetch_hist(hist[c], hdr[c], resp, d)
       IN  IF d.exc # "none" THEN Finish(c, Raise(d.exc, NoData), h)
           ELSE IF data_is_none(d.ret) /\ h.logins < 4
               THEN SendLogin(c, "auth2", [h EXCEPT !.reauths = @ + 1])
           ELSE IF data_is_none(d.ret) THEN Finish(c, Raise("UpdateFailed", NoData), h)
           ELSE Finish(c, Return(d.ret), h)
    /\ UNCHANGED <<variant, now, token, token_expires, call, flow, meter, script>>

\* Mutant: the result of the retry is returned without the final None check.
FetchResponse2_unchecked(c, resp) ==
    /\ pc[c] = "fetch2"
    /\ LET d == get_consumption_data(variant, resp)
           h == fetch_hist(hist[c], hdr[c], resp, d)
       IN  IF d.exc # "none" THEN Finish(c, Raise(d.exc, NoData), h)
           ELSE Finish(c, Return(d.ret), h)
    /\ UNCHANGED <<variant, now, token, token_expires, call, flow, meter, script>>

\* The retry fetch is answered.
FetchResponse2(c, resp) ==
    /\ pc[c] = "fetch2"
    /\ LET d == get_consumption_data(variant, resp)
           h == fetch_hist(hist[c], hdr[c], resp, d)
       IN  IF d.exc # "none" THEN Finish(c, Raise(d.exc, NoData), h)
           ELSE IF data_is_none(d.ret) THEN Finish(c, Raise("UpdateFailed", NoData), h)
           ELSE Finish(c, Return(d.ret), h)
    /\ UNCHANGED <<variant, now, token, token_expires, call, flow, meter, script>>

\* The local clock advances.
Tick ==
    /\ now < MaxClock
    /\ now' = now + 1
    /\ UNCHANGED <<variant, token, token_expires, data, last_update_success, pc, hdr, hist, call,
                   flow, meter, script>>

Next ==
    \/ \E c \in Serial : Start(c)
    \/ \E c \in Serial, resp \in LoginResponses : LoginResponse1(c, resp)
    \/ \E c \in Serial, resp \in FetchResponses : FetchResponse1(c, resp)
    \/ \E c \in Serial, resp \in LoginResponses : LoginResponse2(c, resp)
    \/ \E c \in Serial, resp \in FetchResponses : FetchResponse2(c, resp)
    \/ Tick

Spec == Init /\ [][Next]_vars

\* Every request carries a timeout (15 s login, 30 s fetch): it is answered or it
\* raises, so a suspended cycle is always resumed.
Fairness ==
    \A c \in Serial :
        /\ WF_vars(\E resp \in LoginResponses : LoginResponse1(c, resp))
        /\ WF_vars(\E resp \in FetchResponses : FetchResponse1(c, resp))
        /\ WF_vars(\E resp \in LoginResponses : LoginResponse2(c, resp))
        /\ WF_vars(\E resp \in FetchResponses : FetchResponse2(c, resp))

FairSpec == Spec /\ Fairness

(***************************************************************************)
(* The Authenticator and the Fetcher called on their own, as a unit test    *)
(* calls them: any answer of the endpoint, on any coordinator state the     *)
(* calls themselves produce.                                                *)
(***************************************************************************)
CallAuthenticate(resp) ==
    /\ LET r == authenticate(variant, resp)
       IN  /\ token' = IF r.store THEN r.ret ELSE token
           /\ token_expires' = expires_after(variant, r, token_expires, now)
           /\ call' = [fn |-> "authenticate", resp |-> resp, ret |-> r.ret, exc |-> r.exc]
    /\ UNCHANGED <<variant, now, data, last_update_success, pc, hdr, hist, flow, meter, script>>

CallGetConsumptionData(resp) ==
    /\ LET d == get_consumption_data(variant, resp)
       IN  call' = [fn |-> "get_consumption_data", resp |-> resp, ret |-> d.ret,
                    exc |-> d.exc, carried |-> token]
    /\ UNCHANGED <<variant, now, token, token_expires, data, last_update_success,
                   pc, hdr, hist, flow, meter, script>>

UnitNext ==
    \/ \E resp \in LoginResponses : CallAuthenticate(resp)
    \/ \E resp \in FetchResponses : CallGetConsumptionData(resp)

UnitSpec == Init /\ [][UnitNext]_vars

(***************************************************************************)
(* One calendar day against a vendor whose meter only counts up: every      *)
(* number the consumption endpoint reports is the volume metered since      *)
(* midnight (the window of the request, from start_of_day to now).          *)
(***************************************************************************)
\* What the consumption endpoint may answer while the meter stands at m: any
\* failure or number-less body, or the metered volume.
DayFetchResponses(m) ==
    {resp \in FetchResponses :
        (resp.shape = "full" /\ resp.vol.t \in {"num", "numtext"}) => resp.vol.v = m}

\* Water is drawn.
Consume ==
    /\ \E m \in Volumes : m > meter /\ meter' = m
    /\ UNCHANGED <<variant, now, token, token_expires, data, last_update_success,
                   pc, hdr, hist, call, flow, script>>

\* Time passes, within the day.
DayTick == Tick /\ now' < HoursPerDay

DayNext ==
    \/ \E c \in Serial : Start(c)
    \/ \E c \in Serial, resp \in LoginResponses : LoginResponse1(c, resp)
    \/ \E c \in Serial, resp \in DayFetchResponses(meter) : FetchResponse1(c, resp)
    \/ \E c \in Serial, resp \in LoginResponses : LoginResponse2(c, resp)
    \/ \E c \in Serial, resp \in DayFetchResponses(meter) : FetchResponse2(c, resp)
    \/ Consume
    \/ DayTick

DaySpec == Init /\ [][DayNext]_vars

(***************************************************************************)
(* Two poll cycles of one coordinator, interleaved at their await points    *)
(***************************************************************************)
\* One answer of each kind: a timeout, a refusal, a 200 without a token, a 200 with
\* either token.
OverlapLoginResponses ==
    {resp \in LoginResponses :
        \/ resp.net = "timeout"
        \/ resp.status = 401 /\ resp.shape = "text"
        \/ resp.status = 200 /\ resp.shape = "object" /\ resp.id_token \in Tokens \cup {NoToken}}

\* A timeout, a refusal, a 200 with null at the path, a 200 with 0.0 or 42.0.
OverlapFetchResponses ==
    {resp \in FetchResponses :
        \/ resp.net = "timeout"
        \/ resp.status = 401 /\ resp.shape = "text"
        \/ resp.status = 200 /\ resp.shape = "full" /\ resp.vol.t = "null"
        \/ resp.status = 200 /\ resp.shape = "full" /\ resp.vol.t = "num"
              /\ resp.vol.v \in {0, 42000}}

\* Nothing happens for as long as a token lasts: cached tokens expire.
LongPause ==
    /\ now + TokenLifetime <= MaxClock
    /\ now' = now + TokenLifetime
    /\ UNCHANGED <<variant, token, token_expires, data, last_update_success, pc, hdr, hist, call,
                   flow, meter, script>>

OverlapNext ==
    \/ \E c \in Cycles : Start(c)
    \/ \E c \in Cycles, resp \in OverlapLoginResponses : LoginResponse1(c, resp)
    \/ \E c \in Cycles, resp \in OverlapFetchResponses : FetchResponse1(c, resp)
    \/ \E c \in Cycles, resp \in OverlapLoginResponses : LoginResponse2(c, resp)
    \/ \E c \in Cycles, resp \in OverlapFetchResponses : FetchResponse2(c, resp)
    \/ LongPause

OverlapSpec == Init /\ [][OverlapNext]_vars

(***************************************************************************)
(* is_valid_guid called on its own                                          *)
(***************************************************************************)
CallIsValidGuid(guid) ==
    /\ call' = [fn |-> "is_valid_guid", arg |-> guid, ret |-> is_valid_guid(guid)]
    /\ UNCHANGED <<variant, now, token, token_expires, data, last_update_success,
                   pc, hdr, hist, flow, meter, script>>

GuidNext == \E guid \in GuidInputs : CallIsValidGuid(guid)

GuidSpec == Init /\ [][GuidNext]_vars

(***************************************************************************)
(* The config flow: async_step_user, split at the login request that        *)
(* validate_input awaits                                                    *)
(***************************************************************************)
\* The form is submitted: the identifiers are validated, then the login is sent.
SubmitForm(account_id, organization_id) ==
    /\ flow.stage = "form"
    /\ flow.submits < MaxSubmits
    /\ LET g == validate_guids(account_id, organization_id)
           f == [flow EXCEPT !.account_id = account_id,
                             !.organization_id = organization_id,
                             !.submits = @ + 1, !.resp = NoResponse]
       IN  IF g.exc # "none"
           THEN flow' = [f EXCEPT !.errors = step_user_errors(g.exc, g.field)]
           ELSE flow' = [f EXCEPT !.stage = "login", !.errors = NoErrors, !.logins = @ + 1]
    /\ UNCHANGED <<variant, now, token, token_expires, data, last_update_success,
                   pc, hdr, hist, call, meter, script>>

\* The login is answered; configured: an entry with this account id exists already,
\* so _abort_if_unique_id_configured raises AbortFlow (inside the try block).
LoginAnswer(resp, configured) ==
    /\ flow.stage = "login"
    /\ LET e == validate_input(resp)
           raised == IF e # "none" THEN e ELSE IF configured THEN "AbortFlow" ELSE "none"
           f == [flow EXCEPT !.resp = resp]
       IN  IF raised # "none"
           THEN flow' = [f EXCEPT !.stage = "form", !.errors = step_user_errors(raised, "base")]
           ELSE flow' = [f EXCEPT !.stage = "done", !.entry = TRUE,
                                  !.title = entry_title(flow.account_id)]
    /\ UNCHANGED <<variant, now, token, token_expires, data, last_update_success,
                   pc, hdr, hist, call, meter, script>>

ConfigNext ==
    \/ \E a \in FormGuids, o \in FormGuids : SubmitForm(a, o)
    \/ \E resp \in LoginResponses, configured \in BOOLEAN : LoginAnswer(resp, configured)

ConfigSpec == Init /\ [][ConfigNext]_vars

(***************************************************************************)
(* One run of test.py's main, split at its two requests                     *)
(***************************************************************************)
\* main starts: with placeholder credentials it returns at once, else it logs in.
ScriptMain(credentials_set) ==
    /\ script.at = "start"
    /\ script' = IF credentials_set
                 THEN [script EXCEPT !.at = "auth", !.credentials_set = TRUE, !.logins = @ + 1]
                 ELSE [script EXCEPT !.at = "done"]
    /\ UNCHANGED <<variant, now, token, token_expires, data, last_update_success,
                   pc, hdr, hist, call, flow, meter>>

\* authenticate returns: without a token main returns, else it sends the fetch.
ScriptLoginAnswer(resp) ==
    /\ script.at = "auth"
    /\ LET t == script_authenticate(resp)
           sc == [script EXCEPT !.login_resp = resp, !.id_token = t]
       IN  script' = IF ~Truthy(t) THEN [sc EXCEPT !.at = "done"]
                     ELSE [sc EXCEPT !.at = "fetch", !.hdr = t, !.fetches = @ + 1]
    /\ UNCHANGED <<variant, now, token, token_expires, data, last_update_success,
                   pc, hdr, hist, call, flow, meter>>

\* get_aggregated_data returns, and main with it.
ScriptFetchAnswer(resp) ==
    /\ script.at = "fetch"
    /\ script' = [script EXCEPT !.at = "done", !.fetch_resp = resp,
                                !.total_volume = script_get_aggregated_data(resp)]
    /\ UNCHANGED <<variant, now, token, token_expires, data, last_update_success,
                   pc, hdr, hist, call, flow, meter>>

ScriptNext ==
    \/ \E credentials_set \in BOOLEAN : ScriptMain(credentials_set)
    \/ \E resp \in ScriptLoginResponses : ScriptLoginAnswer(resp)
    \/ \E resp \in ScriptFetchResponses : ScriptFetchAnswer(resp)

ScriptSpec == Init /\ [][ScriptNext]_vars

(***************************************************************************)
(* Properties                                                               *)
(***************************************************************************)
\* A cycle has ended: with a returned reading, or with an exception to its caller.
Finished(c) == pc[c] = "idle" /\ hist[c].outcome # "none"

Returned(c) == Finished(c) /\ hist[c].outcome = "returned"

Failed(c) == Finished(c) /\ hist[c].outcome # "returned"

\* C1 as stated: a cycle whose first fetch failed and that reports failure has sent
\* exactly one re-authentication login and exactly one retry fetch.
C1_AlwaysOneRetryFetch ==
    \A c \in Cycles :
        (Failed(c) /\ hist[c].first = "fail") =>
            (hist[c].reauths = 1 /\ hist[c].retries = 1)

\* C1 amended: a cycle whose first fetch failed and that reports failure has sent
\* exactly one re-authentication login, and exactly one retry fetch when that login
\* returned a token, none when it did not.
C1_OneReauthRetryIfToken ==
    \A c \in Cycles :
        (Failed(c) /\ hist[c].first = "fail") =>
            /\ hist[c].reauths = 1
            /\ hist[c].retries = (IF hist[c].reauth_ok THEN 1 ELSE 0)

\* The worst case: first fetch failed, re-authenticated, retried, failed.
C1_Witness ==
    \E c \in Cycles :
        /\ Failed(c) /\ hist[c].first = "fail"
        /\ hist[c].reauth_ok /\ hist[c].retries = 1
        /\ hist[c].logins = 2 /\ hist[c].fetches = 2

\* C2: no cycle sends more than 2 logins or more than 2 fetches, a live cycle always
\* has a step to take, and (every request being answered) every cycle ends.
C2_TerminatesWithinTwoAndTwo ==
    /\ [](\A c \in Serial : hist[c].logins <= 2 /\ hist[c].fetches <= 2)
    /\ \A c \in Serial : (pc[c] # "idle") ~> Finished(c)

\* A cycle that used both logins and both fetches has ended.
C2_Witness ==
    \E c \in Serial : Finished(c) /\ hist[c].logins = 2 /\ hist[c].fetches = 2

\* C3: a cycle returns a reading only if its last fetch carried the cached token, a
\* real one, and was answered 200, and the reading is what that fetch produced; a
\* cycle that fails returns nothing.
C3_ReadingOnlyFromAccepted200 ==
    \A c \in Serial :
        /\ Returned(c) =>
              /\ hist[c].last_status = 200
              /\ hist[c].last_hdr = token
              /\ Truthy(hist[c].last_hdr)
              /\ hist[c].result = hist[c].fetched
              /\ hist[c].result # NoData
        /\ Failed(c) => hist[c].result = NoData
        /\ (Finished(c) /\ hist[c].last_status # 200) => Failed(c)

\* A failed first fetch, then a reading of 42.0 from the retry, answered 200.
C3_Witness ==
    \E c \in Serial :
        /\ Returned(c) /\ hist[c].first = "fail" /\ hist[c].last_status = 200
        /\ hist[c].result = 42000

\* C4: in the full integration a cycle starts with a login exactly when the cached
\* token is absent or its expiry is not later than the clock; otherwise the first
\* fetch carries the cached token and no login is sent.  A login that returns a
\* token sets the expiry 23 hours ahead.  Time passing sends no login and touches
\* neither the token nor its expiry.
C4_LazyRefresh ==
    [][\A c \in Serial :
          /\ (variant = "full" /\ pc[c] = "idle" /\ pc'[c] # "idle") =>
                LET stale == ~Truthy(token) \/ token_expires <= now
                IN  /\ (hist'[c].logins = 1) <=> stale
                    /\ stale => (pc'[c] = "auth1" /\ hist'[c].fetches = 0)
                    /\ ~stale => /\ pc'[c] = "fetch1"
                                 /\ hdr'[c] = token
                                 /\ hist'[c].logins = 0
                                 /\ hist'[c].fetches = 1
          /\ (variant = "full" /\ pc[c] \in {"auth1", "auth2"}
                /\ pc'[c] \in {"fetch1", "fetch2"}) =>
                (token_expires' = now + TokenLifetime /\ hdr'[c] = token')
          /\ (hist'[c].logins > hist[c].logins) => pc'[c] \in {"auth1", "auth2"}
          /\ (now' # now) => (token' = token /\ token_expires' = token_expires
                               /\ hist' = hist /\ pc' = pc)
      ]_vars

\* A cached token has expired (it was issued at hour 0 and the clock reads 23 or
\* more), and the cycle that started sent a login.
C4_Witness ==
    \E c \in Serial :
        /\ variant = "full" /\ pc[c] = "auth1" /\ hist[c].logins = 1
        /\ Truthy(token) /\ token_expires <= now

\* C5: _authenticate returns a token exactly when the login answer is a 200 whose
\* body holds a non-empty id_token, and then it returns that id_token; a network
\* error, a non-200 answer or a missing id_token gives None.
C5_AuthenticateReturnsIdToken ==
    call.fn = "authenticate" =>
        LET resp == call.resp
            good == /\ resp.net = "ok" /\ resp.status = 200 /\ resp.shape = "object"
                    /\ resp.id_token \notin {KeyAbsent, NoToken, ""}
        IN  /\ Truthy(call.ret) <=> good
            /\ good => call.ret = resp.id_token
            /\ (resp.net # "ok" \/ resp.status # 200 \/ resp.id_token = KeyAbsent) =>
                  call.ret = NoToken

\* A 200 answer with id_token T2: returned, and cached by the full integration.
C5_Witness ==
    /\ call.fn = "authenticate" /\ call.resp.status = 200 /\ call.resp.id_token = "T2"
    /\ call.ret = "T2" /\ variant = "full" /\ token = "T2"

\* C6: whatever the endpoint answers, _authenticate and _get_consumption_data raise
\* nothing: they return a result or None.
C6_NeverRaise ==
    call.fn # "none" =>
        /\ call.exc = "none"
        /\ call.fn = "authenticate" => (call.ret = NoToken \/ call.ret \in Tokens \cup {""})
        /\ call.fn = "get_consumption_data" => (call.ret = NoData \/ call.ret \in Volumes)

\* A 200 consumption body whose "total" is null: the lookup raises TypeError inside
\* the try block, and the Fetcher returns None.
C6_Witness ==
    /\ call.fn = "get_consumption_data" /\ call.resp.shape = "total_null"
    /\ call.exc = "none" /\ call.ret = NoData

\* C7: with a 200 answer holding aggregate.total.totalVolume the Fetcher returns the
\* value found there (the number; nothing when it is null), and it returns nothing,
\* without raising, when the status is not 200, the request fails or a key of the
\* path is missing.
C7_FetcherReturnsValueAtPath ==
    call.fn = "get_consumption_data" =>
        LET resp == call.resp
            present == resp.net = "ok" /\ resp.status = 200 /\ resp.shape = "full"
        IN  /\ call.exc = "none"
            /\ (present /\ resp.vol.t = "num") => call.ret = resp.vol.v
            /\ (present /\ resp.vol.t = "null") => call.ret = NoData
            /\ ~present => call.ret = NoData

\* C8: a cycle ends by returning or by raising UpdateFailed, nothing else; every
\* cycle whose last fetch produced nothing (no fetch after a failed login, a failed
\* re-authentication, two failed fetches) raises UpdateFailed and returns no value.
C8_FailuresSurfaceAsUpdateFailed ==
    \A c \in Serial :
        /\ hist[c].outcome \in {"none", "returned", "UpdateFailed"}
        /\ (Finished(c) /\ hist[c].fetched = NoData) =>
              (hist[c].outcome = "UpdateFailed" /\ hist[c].result = NoData)
        /\ Returned(c) => hist[c].fetched # NoData

\* Both fetches failed and the cycle raised UpdateFailed.
C8_Witness ==
    \E c \in Serial :
        /\ Finished(c) /\ hist[c].fetches = 2 /\ hist[c].fetched = NoData
        /\ hist[c].outcome = "UpdateFailed"

\* The step in which cycle c ends.
Ends(c) == pc[c] # "idle" /\ pc'[c] = "idle"

\* C9 as stated: a failed cycle makes the sensor unavailable and leaves the stored
\* reading alone, availability changes only when a cycle ends, and a successful
\* cycle makes the sensor available with exactly the value it fetched.
C9_ExposesFetchedValue ==
    [][\A c \in Serial :
          /\ (Ends(c) /\ hist'[c].outcome # "returned") => (~available' /\ data' = data)
          /\ (Ends(c) /\ hist'[c].outcome = "returned") =>
                (available' /\ native_value' = hist'[c].fetched)
          /\ ~Ends(c) => (available' = available /\ data' = data)
      ]_vars

\* C9 amended: the same, the sensor of the full integration exposing the fetched
\* value rounded to two decimals.
C9_ExposesRoundedValue ==
    [][\A c \in Serial :
          /\ (Ends(c) /\ hist'[c].outcome # "returned") => (~available' /\ data' = data)
          /\ (Ends(c) /\ hist'[c].outcome = "returned") =>
                /\ available'
                /\ data' = hist'[c].fetched
                /\ native_value' = (IF variant = "full" THEN round2(hist'[c].fetched)
                                    ELSE hist'[c].fetched)
          /\ ~Ends(c) => (available' = available /\ data' = data)
      ]_vars

\* After a failed cycle a cycle fetched 12.346 and the sensor is available with 12.35.
C9_Witness ==
    \E c \in Serial :
        /\ Returned(c) /\ ~hist[c].prev_ok /\ variant = "full"
        /\ hist[c].fetched = 12346 /\ available /\ native_value = 12350

\* C10: a cycle in which every login was answered 200 with an id_token and every
\* fetch carrying a token issued in the cycle with a well-formed 200 returns a
\* reading, whatever earlier cycles left cached; when its last fetch carried such a
\* token, it returns the number of that answer.
C10_StartsFresh ==
    \A c \in Serial :
        (Finished(c) /\ hist[c].env_ok) =>
            /\ hist[c].outcome = "returned"
            /\ hist[c].fresh => (hist[c].result = hist[c].last_vol
                                 /\ hist[c].last_hdr = token)

\* After a failed cycle: the cached token is rejected, a new one is issued, and the
\* retry returns the reading.
C10_Witness ==
    \E c \in Serial :
        /\ Returned(c) /\ hist[c].env_ok /\ ~hist[c].prev_ok
        /\ hist[c].start_cached /\ hist[c].first = "fail" /\ hist[c].fresh
        /\ hist[c].result = 42000

\* The claim's own reading of a GUID: 36 characters, hyphens at positions 9, 14,
\* 19 and 24, hex digits everywhere else.
GroupedHex(s) ==
    /\ Len(s) = 36
    /\ \A i \in 1..Len(s) : IF i \in {9, 14, 19, 24} THEN s[i] = "-" ELSE s[i] \in HexDigits

HyphenCount(s) == Cardinality({i \in 1..Len(s) : s[i] = "-"})

\* C11: is_valid_guid accepts "12345678-1234-5678-9012-123456789012", rejects
\* "not-a-guid", rejects every string whose length is not 36 or whose hyphen count
\* is not 4, and accepts exactly the strings of hex digits grouped 8-4-4-4-12.
C11_AcceptsExactlyGroupedHex ==
    call.fn = "is_valid_guid" =>
        /\ call.arg = ExampleGuid => call.ret
        /\ call.arg = NotAGuid => ~call.ret
        /\ Len(call.arg) # 36 => ~call.ret
        /\ HyphenCount(call.arg) # 4 => ~call.ret
        /\ call.ret <=> GroupedHex(call.arg)

\* The login body is a 200 JSON object that holds no usable id_token.
NoIdToken(resp) ==
    resp.net = "ok" /\ resp.status = 200 /\ resp.shape = "object"
    /\ ~Truthy(dict_get_id_token(resp))

\* C20: validate_input maps login outcomes to distinct errors that reach the form:
\* a 401, or a 200 without id_token, gives invalid_auth; any other non-200 status
\* or a network error gives cannot_connect.
C20_LoginOutcomesReachForm ==
    flow.resp # NoResponse =>
        /\ (flow.resp.net = "ok" /\ flow.resp.status = 401) \/ NoIdToken(flow.resp)
              => flow.stage = "form" /\ flow.errors.base = "invalid_auth"
        /\ flow.resp.net # "ok" \/ flow.resp.status \notin {200, 401}
              => flow.stage = "form" /\ flow.errors.base = "cannot_connect"

\* A finished cycle that found no usable cached token, whose login was answered 200
\* with an id_token and whose fetch with that token was answered 200 with a number.
EndToEnd(c) == Finished(c) /\ ~hist[c].start_cached /\ hist[c].env_ok

\* C12 as stated: end to end, a cycle that starts with no cached token, whose login
\* returns T1 and whose fetch for T1 is answered 200 with totalVolume V, sends exactly
\* one login and exactly one fetch (carrying Bearer T1), and the exposed reading
\* equals V.
C12_EndToEndExposesV ==
    \A c \in Serial :
        EndToEnd(c) =>
            /\ hist[c].logins = 1 /\ hist[c].fetches = 1
            /\ hist[c].issued \in Tokens /\ hist[c].last_hdr = hist[c].issued
            /\ Returned(c) /\ available
            /\ native_value = hist[c].last_vol

\* C12 amended: the same, the exposed reading being V rounded to two decimals in the
\* full integration (42.0 for 42.0).
C12_EndToEndExposesRoundedV ==
    \A c \in Serial :
        EndToEnd(c) =>
            /\ hist[c].logins = 1 /\ hist[c].fetches = 1
            /\ hist[c].issued \in Tokens /\ hist[c].last_hdr = hist[c].issued
            /\ Returned(c) /\ available
            /\ hist[c].result = hist[c].last_vol
            /\ native_value = (IF variant = "full" THEN round2(hist[c].last_vol)
                               ELSE hist[c].last_vol)

\* The very first cycle: login answered T1, fetch carrying T1 answered 42.0, exposed 42.0.
C12_Witness ==
    \E c \in Serial :
        /\ EndToEnd(c) /\ variant = "full" /\ now = 0
        /\ hist[c].issued = "T1" /\ hist[c].last_hdr = "T1" /\ token = "T1"
        /\ hist[c].last_vol = 42000 /\ native_value = 42000

\* A step in which a login of cycle c was answered with a token, which _authenticate
\* stored (the cycle goes on to a fetch).
LoginStored(c) == pc[c] \in {"auth1", "auth2"} /\ pc'[c] \in {"fetch1", "fetch2"}

\* A step in which cycle c discarded the token after its first fetch failed.
Discarded(c) == pc[c] = "fetch1" /\ pc'[c] \in {"auth2", "fetch2"}

\* C13 as stated: the session token (bearer string plus expiry) is replaced wholesale;
\* no operation changes the cached token without also setting the cached expiry,
\* or the expiry without the token.
C13_ReplacedWholesale ==
    [][(variant = "full" /\ (token' # token \/ token_expires' # token_expires)) =>
          \E c \in Serial :
              /\ LoginStored(c)
              /\ token' = hist'[c].issued
              /\ token_expires' = now + TokenLifetime
      ]_vars

\* C13 amended: a login answered with a token replaces the token and the expiry
\* together; the only other change is the discard after a failed first fetch, which
\* clears the token and leaves the expiry as it was.  A cached token always comes
\* with an expiry.
C13_ReplacedTogetherOrDiscarded ==
    /\ [](variant = "full" /\ Truthy(token) => token_expires # NoExpiry)
    /\ [][(variant = "full" /\ (token' # token \/ token_expires' # token_expires)) =>
             \E c \in Serial :
                 \/ /\ LoginStored(c)
                    /\ token' = hist'[c].issued
                    /\ token_expires' = now + TokenLifetime
                 \/ /\ Discarded(c)
                    /\ token' = NoToken
                    /\ token_expires' = token_expires
         ]_vars

\* After a discard that left the old expiry behind, the re-authentication has
\* replaced the token and the expiry together.
C13_Witness ==
    \E c \in Serial :
        /\ variant = "full" /\ pc[c] = "fetch2" /\ hist[c].start_cached /\ now > 0
        /\ token = hist[c].issued /\ token_expires = now + TokenLifetime

\* C14: the exposed sensor value is monotonically non-decreasing over a calendar
\* day: of two successive successful poll cycles within the same local day, the
\* later exposes a value no smaller than the earlier.
C14_NonDecreasingOverDay ==
    [][\A c \in Serial :
          (Ends(c) /\ hist'[c].outcome = "returned" /\ data # NoData) =>
              native_value' >= native_value
      ]_vars

C17_InterleavedCyclesSafe ==
    \A c \in Cycles :
        /\ pc[c] \in {"fetch1", "fetch2"} => Truthy(hdr[c])
        /\ hist[c].logins <= 2 /\ hist[c].fetches <= 2

\* A cycle retries with a fresh token while the other cycle, which has discarded the
\* cached token in between, awaits its own re-authentication.
C17_Witness ==
    /\ variant = "full"
    /\ pc["p1"] = "fetch2" /\ Truthy(hdr["p1"])
    /\ hist["p1"].logins = 2 /\ hist["p1"].fetches = 2
    /\ pc["p2"] = "auth2" /\ token = NoToken

\* C18: a reading of 0 liters is a success: when the first fetch returns 0.0 the
\* cycle returns 0.0 without discarding the token, re-authenticating or retrying, and
\* the sensor exposes 0 rather than unavailable.
C18_ZeroIsSuccess ==
    [][\A c \in Serial :
          (pc[c] = "fetch1" /\ pc'[c] # "fetch1" /\ hist'[c].last_vol = 0) =>
              /\ pc'[c] = "idle"
              /\ hist'[c].outcome = "returned" /\ hist'[c].result = 0
              /\ token' = token /\ token_expires' = token_expires
              /\ hist'[c].logins = hist[c].logins /\ hist'[c].fetches = 1
              /\ hist'[c].reauths = 0 /\ hist'[c].retries = 0
              /\ available' /\ native_value' = 0
      ]_vars

\* A cycle whose only fetch was answered 200 with 0.0: returned, available, 0 exposed.
C18_Witness ==
    \E c \in Serial :
        /\ Returned(c) /\ hist[c].first = "ok" /\ hist[c].fetches = 1
        /\ hist[c].last_status = 200 /\ hist[c].last_vol = 0
        /\ hist[c].result = 0 /\ available /\ native_value = 0 /\ Truthy(token)

\* C19: whenever the Fetcher returns a number, that number is the numeric totalVolume
\* carried by the 200 response; it never substitutes a default for a response that
\* carries no number at the path.
C19_NumberComesFromResponse ==
    (call.fn = "get_consumption_data" /\ call.ret # NoData) =>
        /\ call.resp.net = "ok" /\ call.resp.status = 200 /\ call.resp.shape = "full"
        /\ call.resp.vol.t \in {"num", "numtext"}
        /\ call.ret = call.resp.vol.v

\* C21: during configuration, GUID validation is local and precedes any network
\* call: if the account identifier or the organization identifier is not a valid
\* GUID, no login request is sent, no config entry is created, and the form shows
\* invalid_guid on the offending field (account_id checked before organization_id);
\* a config entry is created only after both identifiers validated and the login
\* returned 200 with a non-empty id_token.
C21_GuidCheckedBeforeLogin ==
    /\ [](flow.entry =>
             /\ GroupedHex(flow.account_id) /\ GroupedHex(flow.organization_id)
             /\ flow.resp.net = "ok" /\ flow.resp.status = 200
             /\ flow.resp.shape = "object" /\ Truthy(dict_get_id_token(flow.resp)))
    /\ [][(flow'.submits = flow.submits + 1
             /\ (~GroupedHex(flow'.account_id) \/ ~GroupedHex(flow'.organization_id))) =>
             /\ flow'.logins = flow.logins
             /\ flow'.stage = "form" /\ ~flow'.entry
             /\ flow'.errors =
                   IF ~GroupedHex(flow'.account_id)
                   THEN [NoErrors EXCEPT !.account_id = "invalid_guid"]
                   ELSE [NoErrors EXCEPT !.organization_id = "invalid_guid"]
         ]_vars

\* main sends the fetch only after authenticate returned a token: one login, at most
\* one fetch, no retry.
ScriptOneLoginOneFetch ==
    /\ script.logins <= 1 /\ script.fetches <= 1
    /\ (script.at = "done" /\ script.credentials_set) => script.logins = 1
    /\ script.at = "fetch" \/ script.fetches = 1 =>
          /\ script.logins = 1 /\ script.fetches = 1
          /\ script.login_resp # NoResponse
          /\ Truthy(script.id_token) /\ script.id_token = script.login_resp.id_token
          /\ script.hdr = script.id_token

\* C22 as stated: the standalone script's authenticate and get_aggregated_data treat
\* every non-200 response as failure and return no result for it, and main sends the
\* fetch request only after authenticate returned a token (one login, at most one
\* fetch, no retry).
C22_ScriptNon200IsFailure ==
    /\ (script.login_resp # NoResponse /\ script.login_resp.status # 200)
          => script.id_token = NoToken
    /\ (script.fetch_resp # NoResponse /\ script.fetch_resp.status # 200)
          => script.total_volume = NoVolume
    /\ ScriptOneLoginOneFetch

\* C22 amended: the same, the responses treated as failure being those with a 4xx or
\* 5xx status (and requests that fail); a 200 whose body holds no id_token, or no
\* value at the path, gives no result either.
C22_ScriptErrorStatusIsFailure ==
    /\ (script.login_resp # NoResponse
          /\ (script.login_resp.net # "ok" \/ script.login_resp.status >= 400
                \/ ~Truthy(dict_get_id_token(script.login_resp))))
          => script.id_token = NoToken /\ script.fetches = 0
    /\ (script.fetch_resp # NoResponse
          /\ (script.fetch_resp.net # "ok" \/ script.fetch_resp.status >= 400
                \/ script.fetch_resp.shape # "full"))
          => script.total_volume = NoVolume
    /\ ScriptOneLoginOneFetch

\* The login was answered 200 with T1, the one fetch carried T1 and was answered 500:
\* main is done with no result and has not retried.
C22_Witness ==
    /\ script.at = "done" /\ script.logins = 1 /\ script.fetches = 1
    /\ script.login_resp.status = 200 /\ script.id_token = "T1" /\ script.hdr = "T1"
    /\ script.fetch_resp.status = 500 /\ script.fetch_resp.shape = "full"
    /\ script.total_volume = NoVolume

====
